---- MODULE Spec2Model ----
(***************************************************************************)
(* Model of the hybrid resume parser of "backend/nlp parser/app.py".       *)
(*                                                                         *)
(* Python strings are modelled by TLA+ strings, used as sequences of       *)
(* one-character strings (Len, \o and SubSeq apply to them).  The model    *)
(* alphabet is ASCII plus one non-ASCII letter, U+017F LATIN SMALL LETTER  *)
(* LONG S, written LongS below: str.lower() leaves it alone, str.upper()   *)
(* maps it to "S", and re.IGNORECASE lets it match "s".                    *)
(***************************************************************************)
EXTENDS Integers, Sequences, FiniteSets, TLC

VARIABLES
    cInput,     \* canonical_skill: the surface form handed to the first call
    cFirst,     \* canonical_skill: result of the first call
    cOut,       \* canonical_skill: result of the latest call
    cCalls,     \* canonical_skill: number of calls made so far (0..2)
    sLines,     \* split_resume_sections: the lines the text is made of
    sText,      \* split_resume_sections: the text argument
    sSections,  \* split_resume_sections: the returned dict
    sDone,      \* split_resume_sections: TRUE once the call has returned
    ML_AVAILABLE,   \* global set by load_nlp: the custom model was loaded
    HYBRID_USE_ML,  \* global read from the environment
    pipe_names,     \* nlp.pipe_names: the components of the pipeline, in order
    ENTITY_RULER,   \* global: the ruler try_add_entity_ruler returned, or None
    rulerTags,      \* the (phrase, label) patterns loaded into the entity ruler
    nerTags,        \* the (phrase, label) pairs the statistical recognizer tags
    rText,          \* the "text" field of the request parse_resume handles
    rCount,         \* number of times the request has been handled
    rResponse,      \* the latest response of parse_resume
    rPrev,          \* the response before it
    eBlocks,        \* extract_experience: the blocks the text is made of
    eText,          \* extract_experience: the experience_text argument
    eOut,           \* extract_experience: the returned list
    eDone,          \* extract_experience: TRUE once the call has returned
    iFiles,         \* the pattern files under PATTERNS_DIR: name -> lines
    iCalls,         \* number of calls of try_add_entity_ruler made so far
    iFault,         \* the exception raised inside the latest call, if any
    iBefore,        \* pipe_names and the loaded patterns before the latest call
    inflight        \* parse_resume: the requests being served, id -> locals of the call

canonVars == <<cInput, cFirst, cOut, cCalls>>

segVars == <<sLines, sText, sSections, sDone>>

sharedVars == <<ML_AVAILABLE, HYBRID_USE_ML, pipe_names, ENTITY_RULER, rulerTags, nerTags>>

reqVars == <<rText, rCount, rResponse, rPrev>>

expVars == <<eBlocks, eText, eOut, eDone>>

instVars == <<iFiles, iCalls, iFault, iBefore>>

srvVars == <<inflight>>

vars == <<canonVars, segVars, sharedVars, reqVars, expVars, instVars, srvVars>>

-----------------------------------------------------------------------------
(* Bounds of the model                                                     *)

MaxCanonLen == 2      \* length of the enumerated canonical_skill inputs
MaxLines == 4         \* number of lines of a text handed to split_resume_sections
MaxTextLines == 2     \* number of lines of a request text
MaxNerTags == 1       \* number of phrases the statistical recognizer tags
MaxRulerTags == 1     \* number of patterns loaded into the entity ruler
MaxCalls == 2         \* number of times a request is handled
MaxBlocks == 2        \* number of blocks of a text handed to extract_experience
MaxFileLines == 2     \* number of lines of a pattern file
MaxInstalls == 2      \* number of calls of try_add_entity_ruler
MaxRequests == 2      \* number of requests served at the same time

-----------------------------------------------------------------------------
(* Characters and str methods                                              *)

LongS == "$"          \* stands for U+017F, which SANY cannot read in a literal

UpperLetters == "ABCDEFGHIJKLMNOPQRSTUVWXYZ"
LowerLetters == "abcdefghijklmnopqrstuvwxyz"
Digits == "0123456789"

Ch(s, i) == SubSeq(s, i, i)

\* the slice s[:n]
Take(s, n) == SubSeq(s, 1, IF n < Len(s) THEN n ELSE Len(s))

\* the slice s[n:]
Drop(s, n) == SubSeq(s, n + 1, Len(s))

Chars(s) == {Ch(s, i) : i \in 1..Len(s)}

IndexIn(c, s) == CHOOSE i \in 1..Len(s) : Ch(s, i) = c

UpperSet == Chars(UpperLetters)
LowerSet == Chars(LowerLetters)

LowerMap == [c \in UpperSet |-> Ch(LowerLetters, IndexIn(c, UpperLetters))]
UpperMap == [c \in LowerSet |-> Ch(UpperLetters, IndexIn(c, LowerLetters))]

\* str.lower() on one character
LowerCh(c) == IF c \in UpperSet THEN LowerMap[c] ELSE c

\* str.upper() on one character (U+017F upper-cases to "S")
UpperCh(c) == IF c \in LowerSet THEN UpperMap[c] ELSE IF c = LongS THEN "S" ELSE c

\* The operators that rebuild a string character by character split the
\* range of indexes in two halves.
RECURSIVE LowerRange(_, _, _)
LowerRange(s, a, b) ==
    IF a > b THEN ""
    ELSE IF a = b THEN LowerCh(Ch(s, a))
    ELSE LowerRange(s, a, (a + b) \div 2) \o LowerRange(s, (a + b) \div 2 + 1, b)

\* str.lower()
Lower(s) == LowerRange(s, 1, Len(s))

RECURSIVE UpperRange(_, _, _)
UpperRange(s, a, b) ==
    IF a > b THEN ""
    ELSE IF a = b THEN UpperCh(Ch(s, a))
    ELSE UpperRange(s, a, (a + b) \div 2) \o UpperRange(s, (a + b) \div 2 + 1, b)

\* str.upper()
Upper(s) == UpperRange(s, 1, Len(s))

\* str.isspace() on one character
IsSpace(c) == c \in {" ", "\n", "\t"}

MinOf(S) == CHOOSE x \in S : \A y \in S : x <= y

\* the number of whitespace characters s starts with
LeadingSpaces(s) == MinOf({k \in 0..Len(s) : k = Len(s) \/ ~IsSpace(Ch(s, k + 1))})

\* the number of whitespace characters s ends with
TrailingSpaces(s) == MinOf({k \in 0..Len(s) : k = Len(s) \/ ~IsSpace(Ch(s, Len(s) - k))})

LStrip(s) == Drop(s, LeadingSpaces(s))

RStrip(s) == Take(s, Len(s) - TrailingSpaces(s))

\* str.strip()
Strip(s) == RStrip(LStrip(s))

\* Offsets are Python offsets: offset p lies before character p + 1.
CharAt(text, p) == IF p >= 0 /\ p < Len(text) THEN Ch(text, p + 1) ELSE ""

\* simple case folding, as re.IGNORECASE applies it: U+017F folds to "s"
FoldCh(c) == IF c = LongS THEN "s" ELSE LowerCh(c)

MaxOf(S) == CHOOSE x \in S : \A y \in S : y <= x

NoMatch == -1

EmptyDict == [k \in {} |-> ""]

DictGet(d, k, default) == IF k \in DOMAIN d THEN d[k] ELSE default

DictSet(d, k, v) == [x \in DOMAIN d \cup {k} |-> IF x = k THEN v ELSE d[x]]

\* an assignment "x = v" followed by the statements Body that read x
With(v, Body(_)) == Body(v)

-----------------------------------------------------------------------------
(* The regular expressions of the "re" module, matched as its backtracking *)
(* engine does.  A pattern is a tree of records; matching a pattern from   *)
(* a state [pos, caps] gives the sequence of the states it can end in, in  *)
(* the order backtracking tries them, so the head of the sequence is the   *)
(* match "re" reports.                                                     *)

AsciiLetters == Chars(UpperLetters) \cup Chars(LowerLetters)
DigitChars == Chars(Digits)
SpaceChars == {" ", "\n", "\t"}
WordChars == AsciiLetters \cup DigitChars \cup {"_", LongS}     \* "\w"

ReCls(S) == [t |-> "cls", set |-> S]                  \* [...]
ReNotCls(S) == [t |-> "ncls", set |-> S]              \* [^...]
ReLit(str) == [t |-> "lit", s |-> str]                \* literal text
ReCat(items) == [t |-> "cat", items |-> items]        \* r1 r2 ...
ReAlt(items) == [t |-> "alt", items |-> items]        \* r1|r2|...
ReRep(r, lo, hi) == [t |-> "rep", r |-> r, lo |-> lo, hi |-> hi, greedy |-> TRUE]
ReLazy(r, lo, hi) == [t |-> "rep", r |-> r, lo |-> lo, hi |-> hi, greedy |-> FALSE]
ReCap(name, r) == [t |-> "cap", name |-> name, r |-> r]   \* (?P<name>r) or (r)
ReBol == [t |-> "bol"]                                \* ^
ReEol == [t |-> "eol"]                                \* $
ReWordB == [t |-> "wordb"]                            \* \b
Unbounded == -1
ReStar(r) == ReRep(r, 0, Unbounded)
RePlus(r) == ReRep(r, 1, Unbounded)
ReOpt(r) == ReRep(r, 0, 1)

\* one pattern character against one text character
ReChEq(pc, c, ic) == IF ic THEN FoldCh(pc) = FoldCh(c) ELSE pc = c

ReInCls(set, c, ic) ==
    /\ c # ""
    /\ \/ c \in set
       \/ ic /\ (LowerCh(c) \in set \/ UpperCh(c) \in set \/ FoldCh(c) \in set)

IsWordAt(text, p) == CharAt(text, p) \in WordChars

\* the group name, entered at offset from, recorded in the states inner its
\* pattern ended in
ReCaptured(name, from, inner) ==
    [i \in 1..Len(inner) |->
        [inner[i] EXCEPT !.caps = DictSet(inner[i].caps, name, <<from, inner[i].pos>>)]]

\* the number of characters the single-character pattern one accepts from
\* offset p on
ClsRun(one, text, p, ic) ==
    MinOf({k \in 0..(Len(text) - p) :
            ~(IF one.t = "cls" THEN ReInCls(one.set, CharAt(text, p + k), ic)
              ELSE CharAt(text, p + k) # "" /\ ~ReInCls(one.set, CharAt(text, p + k), ic))})

\* the states a repetition of a single-character pattern can end in, when
\* run characters from st on are accepted
ReRunEnds(re, st, run) ==
    LET most == IF re.hi # Unbounded /\ re.hi < run THEN re.hi ELSE run
        n == most - re.lo + 1
    IN  IF n <= 0 THEN <<>>
        ELSE [i \in 1..n |->
                [st EXCEPT !.pos = st.pos + (IF re.greedy THEN most - i + 1
                                             ELSE re.lo + i - 1)]]

\* the states a repetition that has matched count times can end in: more are
\* those reached by matching once more
ReRepOrder(re, count, st, more) ==
    IF count < re.lo THEN more
    ELSE IF re.greedy THEN more \o <<st>>
    ELSE <<st>> \o more

RECURSIVE ReEnds(_, _, _, _), ReEndsAll(_, _, _, _, _), ReCatEnds(_, _, _, _, _),
          ReAltEnds(_, _, _, _, _), ReRepEnds(_, _, _, _, _), ReRepAgain(_, _, _, _, _, _)

\* the states the pattern re can end in when started in state st
ReEnds(re, text, st, ic) ==
    CASE re.t = "cls" ->
            IF ReInCls(re.set, CharAt(text, st.pos), ic)
            THEN <<[st EXCEPT !.pos = st.pos + 1]>> ELSE <<>>
      [] re.t = "ncls" ->
            IF CharAt(text, st.pos) # "" /\ ~ReInCls(re.set, CharAt(text, st.pos), ic)
            THEN <<[st EXCEPT !.pos = st.pos + 1]>> ELSE <<>>
      [] re.t = "lit" ->
            IF /\ st.pos + Len(re.s) <= Len(text)
               /\ \A i \in 1..Len(re.s) : ReChEq(Ch(re.s, i), CharAt(text, st.pos + i - 1), ic)
            THEN <<[st EXCEPT !.pos = st.pos + Len(re.s)]>> ELSE <<>>
      [] re.t = "cat" -> ReCatEnds(re.items, 1, text, <<st>>, ic)
      [] re.t = "alt" -> ReAltEnds(re.items, 1, text, st, ic)
      [] re.t = "rep" -> ReRepEnds(re, 0, text, st, ic)
      [] re.t = "cap" -> ReCaptured(re.name, st.pos, ReEnds(re.r, text, st, ic))
      [] re.t = "bol" -> IF st.pos = 0 THEN <<st>> ELSE <<>>
      [] re.t = "eol" ->
            IF st.pos = Len(text) \/ (st.pos = Len(text) - 1 /\ CharAt(text, st.pos) = "\n")
            THEN <<st>> ELSE <<>>
      [] re.t = "wordb" ->
            IF IsWordAt(text, st.pos - 1) # IsWordAt(text, st.pos) THEN <<st>> ELSE <<>>

\* the pattern started in each of states[i..], in order
ReEndsAll(re, text, states, i, ic) ==
    IF i > Len(states) THEN <<>>
    ELSE ReEnds(re, text, states[i], ic) \o ReEndsAll(re, text, states, i + 1, ic)

ReCatEnds(items, k, text, states, ic) ==
    IF k > Len(items) \/ states = <<>> THEN states
    ELSE ReCatEnds(items, k + 1, text, ReEndsAll(items[k], text, states, 1, ic), ic)

ReAltEnds(items, k, text, st, ic) ==
    IF k > Len(items) THEN <<>>
    ELSE ReEnds(items[k], text, st, ic) \o ReAltEnds(items, k + 1, text, st, ic)

\* the repetition continued from each of the states once[i..]
ReRepAgain(re, count, text, once, i, ic) ==
    IF i > Len(once) THEN <<>>
    ELSE ReRepEnds(re, count, text, once[i], ic) \o ReRepAgain(re, count, text, once, i + 1, ic)

\* a repetition that has already matched count times; the repetition of a
\* character class is read off the run of such characters
ReRepEnds(re, count, text, st, ic) ==
    IF re.hi # Unbounded /\ count >= re.hi THEN <<st>>
    ELSE IF count = 0 /\ re.r.t \in {"cls", "ncls"}
    THEN ReRunEnds(re, st, ClsRun(re.r, text, st.pos, ic))
    ELSE ReRepOrder(re, count, st,
            ReRepAgain(re, count + 1, text,
                       SelectSeq(ReEnds(re.r, text, st, ic), LAMBDA s : s.pos > st.pos),
                       1, ic))

NoCaps == [k \in {} |-> <<0, 0>>]

\* the match re.match would report at offset p: [start, end, caps], or NoMatch
ReMatchAt(re, text, p, ic) ==
    With(ReEnds(re, text, [pos |-> p, caps |-> NoCaps], ic),
         LAMBDA ends :
            IF ends = <<>> THEN [start |-> NoMatch, end |-> NoMatch, caps |-> NoCaps]
            ELSE [start |-> p, end |-> ends[1].pos, caps |-> ends[1].caps])

\* the leftmost match that starts at one of the offsets a..b
RECURSIVE ReSearchRange(_, _, _, _, _)
ReSearchRange(re, text, a, b, ic) ==
    IF a > b THEN [start |-> NoMatch, end |-> NoMatch, caps |-> NoCaps]
    ELSE IF a = b THEN ReMatchAt(re, text, a, ic)
    ELSE With(ReSearchRange(re, text, a, (a + b) \div 2, ic),
              LAMBDA left :
                IF left.start # NoMatch THEN left
                ELSE ReSearchRange(re, text, (a + b) \div 2 + 1, b, ic))

\* re.search from offset pos: the leftmost match
ReSearchFrom(re, text, pos, ic) == ReSearchRange(re, text, pos, Len(text), ic)

ReSearch(re, text, ic) == ReSearchFrom(re, text, 0, ic)

\* m.group(0)
Group0(text, m) == SubSeq(text, m.start + 1, m.end)

\* m.group(name)
Group(text, m, name) == SubSeq(text, m.caps[name][1] + 1, m.caps[name][2])

\* re.finditer / re.findall: the successive non-overlapping matches
RECURSIVE ReFindAll(_, _, _, _)
ReFindAll(re, text, pos, ic) ==
    With(ReSearchFrom(re, text, pos, ic),
         LAMBDA m :
            IF m.start = NoMatch THEN <<>>
            ELSE <<m>> \o ReFindAll(re, text, IF m.end > m.start THEN m.end ELSE m.end + 1, ic))

-----------------------------------------------------------------------------
(* Curated dictionaries                                                    *)

SKILL_ALIAS_KEYS ==
    {"js", "ts", "py", "nodejs", "reactjs", "react.js", "node", "postgres",
     "aws", "gcp", "ms sql", "sql server"}

SKILL_ALIASES ==
    [k \in SKILL_ALIAS_KEYS |->
        CASE k = "js" -> "JavaScript"
          [] k = "ts" -> "TypeScript"
          [] k = "py" -> "Python"
          [] k = "nodejs" -> "Node.js"
          [] k = "reactjs" -> "React"
          [] k = "react.js" -> "React"
          [] k = "node" -> "Node.js"
          [] k = "postgres" -> "PostgreSQL"
          [] k = "aws" -> "AWS"
          [] k = "gcp" -> "Google Cloud"
          [] k = "ms sql" -> "SQL Server"
          [] k = "sql server" -> "SQL Server"]

SKILL_TAXONOMY ==
    {"Java", "Python", "JavaScript", "TypeScript", "C++", "C#", "Go", "Ruby",
     "PHP", "Rust", "Kotlin",
     "Spring Boot", "Spring", "React", "Angular", "Vue", "Django", "Flask",
     "Express", "FastAPI", "Hibernate", ".NET",
     "PostgreSQL", "MySQL", "MongoDB", "Redis", "Elasticsearch", "SQLite",
     "Oracle", "SQL Server",
     "AWS", "Azure", "Google Cloud", "GCP", "Docker", "Kubernetes",
     "Terraform", "Jenkins", "GitHub Actions",
     "TensorFlow", "PyTorch", "scikit-learn", "NumPy", "Pandas",
     "Git", "Maven", "Gradle", "Jira"}

JOB_TITLES ==
    {"Software Engineer", "Senior Software Engineer", "Backend Developer",
     "Frontend Developer", "Full Stack Developer", "Data Scientist",
     "Machine Learning Engineer", "DevOps Engineer", "SRE", "QA Engineer",
     "Android Developer", "iOS Developer"}

ORG_SUFFIXES ==
    <<"Inc", "Ltd", "LLC", "Pvt", "Technologies", "Labs", "Systems",
      "Solutions", "Corp", "Company">>

SKILL_STOPWORDS ==
    {"intern", "junior", "senior", "fresher", "trainee", "lead", "manager",
     "associate"}

-----------------------------------------------------------------------------
(* Helpers                                                                 *)

\* re.sub(r"[^a-z0-9+.#]+", " ", lowered): every run of other characters
\* becomes one space
NormKeep == Chars(LowerLetters) \cup DigitChars \cup {"+", ".", "#"}

RECURSIVE SquashOthers(_, _, _)
SquashOthers(s, a, b) ==
    IF a > b THEN ""
    ELSE IF a = b
    THEN (IF Ch(s, a) \in NormKeep THEN Ch(s, a)
          ELSE IF a > 1 /\ Ch(s, a - 1) \notin NormKeep THEN "" ELSE " ")
    ELSE SquashOthers(s, a, (a + b) \div 2) \o SquashOthers(s, (a + b) \div 2 + 1, b)

normalize_text(text) == " " \o SquashOthers(Lower(text), 1, Len(text)) \o " "

\* re.search(rf"\b{re.escape(k)}\b", norm): k occurs with a word boundary
\* on each side
WordSearch(k, norm) ==
    \E p \in 0..(Len(norm) - Len(k)) :
        /\ SubSeq(norm, p + 1, p + Len(k)) = k
        /\ IsWordAt(norm, p - 1) # IsWordAt(norm, p)
        /\ IsWordAt(norm, p + Len(k) - 1) # IsWordAt(norm, p + Len(k))

-----------------------------------------------------------------------------
(* canonical_skill                                                         *)

canonical_skill(token) ==
    LET t == Strip(token)
        key == Lower(t)
    IN  IF key \in SKILL_ALIAS_KEYS THEN SKILL_ALIASES[key]
        ELSE IF key \in {"node", "nodejs"} THEN "Node.js"
        ELSE IF key \in {"reactjs", "react.js"} THEN "React"
        ELSE IF key = "postgres" THEN "PostgreSQL"
        ELSE IF Upper(t) \in {"AWS", "GCP"} THEN Upper(t)
        ELSE IF Lower(t) \in {"c++", "c#", ".net"} THEN t
        ELSE Upper(Take(t, 1)) \o Drop(t, 1)

-----------------------------------------------------------------------------
(* Rule-based extractors                                                   *)

EmailLocalChars == AsciiLetters \cup DigitChars \cup {".", "_", "%", "+", "-"}
EmailDomainChars == AsciiLetters \cup DigitChars \cup {".", "-"}

\* [A-Za-z0-9._%+-]+@[A-Za-z0-9.-]+\.[A-Za-z]{2,}
EMAIL_REGEX ==
    ReCat(<<RePlus(ReCls(EmailLocalChars)), ReLit("@"), RePlus(ReCls(EmailDomainChars)),
            ReLit("."), ReRep(ReCls(AsciiLetters), 2, Unbounded)>>)

extract_email_regex(text) ==
    With(ReSearch(EMAIL_REGEX, text, FALSE),
         LAMBDA m : IF m.start # NoMatch THEN Group0(text, m) ELSE "")

SpaceOrDash == ReCls(SpaceChars \cup {"-"})
Digit == ReCls(DigitChars)

\* (?:(?:\+?\d{1,3}[\s-]?)?(?:\(?\d{3}\)?[\s-]?)?\d{3}[\s-]?\d{4})
PHONE_REGEX ==
    ReCat(<<ReOpt(ReCat(<<ReOpt(ReLit("+")), ReRep(Digit, 1, 3), ReOpt(SpaceOrDash)>>)),
            ReOpt(ReCat(<<ReOpt(ReLit("(")), ReRep(Digit, 3, 3), ReOpt(ReLit(")")),
                          ReOpt(SpaceOrDash)>>)),
            ReRep(Digit, 3, 3), ReOpt(SpaceOrDash), ReRep(Digit, 4, 4)>>)

\* Mobile[:\s]*(\d{10}), re.IGNORECASE
MOBILE_REGEX ==
    ReCat(<<ReLit("Mobile"), ReStar(ReCls(SpaceChars \cup {":"})),
            ReCap("1", ReRep(Digit, 10, 10))>>)

\* re.sub(r"[^\d+]", "", raw)
RECURSIVE KeepDigitsPlus(_, _, _)
KeepDigitsPlus(s, a, b) ==
    IF a > b THEN ""
    ELSE IF a = b THEN (IF Ch(s, a) \in DigitChars \cup {"+"} THEN Ch(s, a) ELSE "")
    ELSE KeepDigitsPlus(s, a, (a + b) \div 2) \o KeepDigitsPlus(s, (a + b) \div 2 + 1, b)

extract_phone_number(text) ==
    With(ReSearch(PHONE_REGEX, text, FALSE),
         LAMBDA m :
            IF m.start = NoMatch
            THEN With(ReSearch(MOBILE_REGEX, text, TRUE),
                      LAMBDA m2 : IF m2.start # NoMatch THEN Group(text, m2, "1") ELSE "")
            ELSE KeepDigitsPlus(Group0(text, m), 1, m.end - m.start))

\* str.splitlines(), for the line end of the model alphabet
RECURSIVE SplitLines(_)
SplitLines(s) ==
    LET nl == MinOf({k \in 0..Len(s) : k = Len(s) \/ Ch(s, k + 1) = "\n"})
    IN  IF s = "" THEN <<>>
        ELSE IF nl = Len(s) THEN <<s>>
        ELSE <<Take(s, nl)>> \o SplitLines(Drop(s, nl + 1))

\* ^\s*(?:name)\s*[:\-]\s*(.+)$, re.IGNORECASE
NAME_LABEL_REGEX ==
    ReCat(<<ReBol, ReStar(ReCls(SpaceChars)), ReLit("name"), ReStar(ReCls(SpaceChars)),
            ReCls({":", "-"}), ReStar(ReCls(SpaceChars)),
            ReCap("1", RePlus(ReNotCls({"\n"}))), ReEol>>)

\* re.findall(r"[A-Za-z]+", line)
LetterRuns(line) ==
    With(ReFindAll(RePlus(ReCls(AsciiLetters)), line, 0, FALSE),
         LAMBDA ms : [i \in 1..Len(ms) |-> Group0(line, ms[i])])

\* str.isupper() of one character
IsUpperCh(c) == c \in Chars(UpperLetters)

HeadLines(text) == LET ls == SplitLines(text) IN SubSeq(ls, 1, IF Len(ls) < 10 THEN Len(ls) ELSE 10)

\* the second loop of extract_name_fallback over lines[i..]: the first line
\* with two capitalized words
RECURSIVE TwoWordsLoop(_, _)
TwoWordsLoop(lines, i) ==
    IF i > Len(lines) THEN ""
    ELSE With(LetterRuns(lines[i]),
              LAMBDA words :
                IF /\ Len(words) >= 2
                   /\ IsUpperCh(Ch(words[1], 1)) /\ IsUpperCh(Ch(words[2], 1))
                   /\ 3 <= Len(words[1]) /\ Len(words[1]) <= 20
                   /\ 3 <= Len(words[2]) /\ Len(words[2]) <= 20
                THEN words[1] \o " " \o words[2]
                ELSE TwoWordsLoop(lines, i + 1))

\* the first loop over lines[i..], for a "Name:" label, then the second loop
RECURSIVE NameLabelLoop(_, _)
NameLabelLoop(lines, i) ==
    IF i > Len(lines) THEN TwoWordsLoop(lines, 1)
    ELSE With(ReSearch(NAME_LABEL_REGEX, Strip(lines[i]), TRUE),
              LAMBDA m :
                IF m.start # NoMatch THEN Strip(Group(Strip(lines[i]), m, "1"))
                ELSE NameLabelLoop(lines, i + 1))

extract_name_fallback(text) == NameLabelLoop(HeadLines(text), 1)

\* the set built by extract_skills_dict, after its stop-word filter
extract_skills_dict(text) ==
    LET norm == normalize_text(text)
        direct == {canonical_skill(kw) : kw \in {k \in SKILL_TAXONOMY : WordSearch(Lower(k), norm)}}
        aliased == {canonical_skill(SKILL_ALIASES[alias]) :
                        alias \in {a \in SKILL_ALIAS_KEYS : WordSearch(a, norm)}}
    IN  {sk \in direct \cup aliased : Lower(sk) \notin SKILL_STOPWORDS}

extract_job_titles_dict(text) ==
    LET norm == normalize_text(text)
    IN  {title \in JOB_TITLES : WordSearch(Lower(title), norm)}

OrgBodyChars == AsciiLetters \cup DigitChars \cup {"&", ".", ",", "-", " "}

\* (?:\b[A-Z][A-Za-z0-9&.,\- ]+?)\s+(?:Inc|Ltd|...)\b
ORG_SUFFIX_REGEX ==
    ReCat(<<ReWordB, ReCls(Chars(UpperLetters)), ReLazy(ReCls(OrgBodyChars), 1, Unbounded),
            RePlus(ReCls(SpaceChars)),
            ReAlt([i \in 1..Len(ORG_SUFFIXES) |-> ReLit(ORG_SUFFIXES[i])]), ReWordB>>)

extract_orgs_dict(text) ==
    With(ReFindAll(ORG_SUFFIX_REGEX, text, 0, FALSE),
         LAMBDA ms : {Strip(Group0(text, ms[i])) : i \in 1..Len(ms)})

-----------------------------------------------------------------------------
(* The recognition engine: nlp(text) gives a Doc, a sequence of tokens     *)
(* with the entity spans the pipeline components set on them.              *)
(*                                                                         *)
(* The entity ruler and the statistical recognizer are each given by the   *)
(* set of (phrase, label) pairs they tag: a component tags every           *)
(* occurrence of its phrases.  The ruler runs first and the recognizer     *)
(* keeps the spans that are already set.                                   *)

None == "None"

\* punctuation the tokenizer splits off the end of a word
SuffixPunct == {",", ":", ";"}

\* Token.like_email
LIKE_EMAIL_REGEX ==
    ReCat(<<ReBol, RePlus(ReCls(EmailLocalChars \cup {"!", "#", "&", "*", "/", "=", "?"})),
            ReLit("@"), RePlus(ReCls(AsciiLetters \cup DigitChars \cup {"-"})),
            ReStar(ReCat(<<ReLit("."), RePlus(ReCls(AsciiLetters \cup DigitChars \cup {"-"}))>>)),
            ReEol>>)

LikeEmail(word) == ReMatchAt(LIKE_EMAIL_REGEX, word, 0, FALSE).start # NoMatch

\* a token: its text, whether whitespace follows it, Token.like_email
Token(word, spaceAfter) == [text |-> word, ws |-> spaceAfter, like_email |-> LikeEmail(word)]

\* the tokens of one whitespace-delimited word
WordTokens(word, spaceAfter) ==
    IF Len(word) > 1 /\ Ch(word, Len(word)) \in SuffixPunct
    THEN <<Token(Take(word, Len(word) - 1), FALSE), Token(Ch(word, Len(word)), spaceAfter)>>
    ELSE <<Token(word, spaceAfter)>>

RECURSIVE Tokenize(_)
Tokenize(text) ==
    LET s == LStrip(text)
        n == MinOf({k \in 1..Len(s) : k = Len(s) \/ IsSpace(Ch(s, k + 1))})
    IN  IF s = "" THEN <<>>
        ELSE WordTokens(Take(s, n), n < Len(s)) \o Tokenize(Drop(s, n))

-----------------------------------------------------------------------------
(* Sectioning                                                              *)

SECTION_KEYS ==
    {"experience", "education", "projects", "skills", "certifications", "summary"}

SECTION_SYNONYMS ==
    [canon \in SECTION_KEYS |->
        CASE canon = "experience" ->
                {"experience", "work experience", "professional experience",
                 "employment history", "career history", "work history",
                 "employment", "work profile"}
          [] canon = "education" ->
                {"education", "educational background", "academic background",
                 "qualifications", "academics"}
          [] canon = "projects" ->
                {"projects", "project experience", "personal projects",
                 "academic projects"}
          [] canon = "skills" ->
                {"skills", "technical skills", "skills & tools", "skills and tools",
                 "technologies", "tech stack", "core competencies", "key skills"}
          [] canon = "certifications" ->
                {"certifications", "certificates", "licenses", "licences"}
          [] canon = "summary" ->
                {"summary", "professional summary", "profile", "about me",
                 "objective"}]

SynonymKeys == UNION {SECTION_SYNONYMS[canon] : canon \in SECTION_KEYS}

\* the dict built by the loop over SECTION_SYNONYMS (every synonym is lower case)
CANONICAL_BY_SYNONYM ==
    [syn \in SynonymKeys |-> CHOOSE canon \in SECTION_KEYS : syn \in SECTION_SYNONYMS[canon]]

\* sorted(CANONICAL_BY_SYNONYM.keys(), key=len, reverse=True)
HEADING_WORDS ==
    <<"professional experience", "educational background", "professional summary",
      "academic background", "employment history", "project experience",
      "personal projects", "academic projects", "core competencies",
      "technical skills", "skills and tools", "work experience", "career history",
      "qualifications", "skills & tools", "certifications", "work history",
      "work profile", "technologies", "certificates", "experience", "employment",
      "tech stack", "key skills", "education", "academics", "objective",
      "projects", "licenses", "licences", "about me", "summary", "profile",
      "skills">>

\* "^" under re.MULTILINE
AtLineStart(text, p) == p = 0 \/ CharAt(text, p - 1) = "\n"

\* "$" under re.MULTILINE
AtLineEnd(text, p) == p = Len(text) \/ CharAt(text, p) = "\n"

LiteralAt(text, p, word) ==
    /\ p + Len(word) <= Len(text)
    /\ \A i \in 1..Len(word) : FoldCh(CharAt(text, p + i - 1)) = Ch(word, i)

\* the offset a greedy "\s*" reaches from p ("\s" matches newlines too)
SpaceRunEnd(text, p) ==
    IF p >= Len(text) THEN p
    ELSE MinOf({q \in p..Len(text) : q = Len(text) \/ ~IsSpace(CharAt(text, q))})

\* where "\s*:?\s*$" ends when tried at offset e, with the backtracking
\* order of the greedy quantifiers, or NoMatch
HeadingTailEnd(text, e) ==
    LET a == SpaceRunEnd(text, e)
        afterColon == {x \in (a + 1)..SpaceRunEnd(text, a + 1) : AtLineEnd(text, x)}
        plain == {x \in e..a : AtLineEnd(text, x)}
    IN  IF CharAt(text, a) = ":" /\ afterColon # {} THEN MaxOf(afterColon)
        ELSE IF plain # {} THEN MaxOf(plain)
        ELSE NoMatch

\* HEADING_PATTERN tried at offset p: "^\s*(?P<head>w1|w2|...)\s*:?\s*$"
HeadingMatchAt(text, p) ==
    LET h == SpaceRunEnd(text, p)
        hits == {i \in 1..Len(HEADING_WORDS) :
                    /\ LiteralAt(text, h, HEADING_WORDS[i])
                    /\ HeadingTailEnd(text, h + Len(HEADING_WORDS[i])) # NoMatch}
        first == CHOOSE i \in hits : \A j \in hits : i <= j
        word == HEADING_WORDS[first]
    IN  IF AtLineStart(text, p) /\ hits # {}
        THEN [start |-> p,
              head |-> SubSeq(text, h + 1, h + Len(word)),
              end |-> HeadingTailEnd(text, h + Len(word))]
        ELSE [start |-> NoMatch, head |-> "", end |-> NoMatch]

\* list(HEADING_PATTERN.finditer(text)), scanning from offset pos; a match
\* starts at the start of a line
RECURSIVE HeadingMatches(_, _)
HeadingMatches(text, pos) ==
    LET starts == {p \in pos..Len(text) : AtLineStart(text, p)}
    IN  IF starts = {} THEN <<>>
        ELSE With(HeadingMatchAt(text, MinOf(starts)),
                  LAMBDA m :
                    IF m.start = NoMatch THEN HeadingMatches(text, MinOf(starts) + 1)
                    ELSE <<m>> \o HeadingMatches(text, m.end))

\* the loop of split_resume_sections over matches[idx..], sections so far
RECURSIVE SectionLoop(_, _, _, _)
SectionLoop(text, matches, idx, sections) ==
    IF idx > Len(matches) THEN sections
    ELSE LET m == matches[idx]
             raw_head == Lower(Strip(m.head))
             canon == DictGet(CANONICAL_BY_SYNONYM, raw_head, raw_head)
             start == m.end
             end == IF idx + 1 <= Len(matches) THEN matches[idx + 1].start ELSE Len(text)
             content == Strip(SubSeq(text, start + 1, end))
             prev == DictGet(sections, canon, "")
             merged == IF prev # "" THEN Strip(prev \o "\n\n" \o content) ELSE content
         IN  SectionLoop(text, matches, idx + 1,
                         IF content # "" THEN DictSet(sections, canon, merged)
                         ELSE sections)

\* split_resume_sections with the strip of the summary left out
split_resume_sections_untrimmed(text) ==
    IF text = "" THEN EmptyDict
    ELSE With(HeadingMatches(text, 0),
              LAMBDA matches :
                IF matches = <<>> THEN [k \in {"summary"} |-> text]
                ELSE SectionLoop(text, matches, 1, EmptyDict))

split_resume_sections(text) ==
    IF text = "" THEN EmptyDict
    ELSE With(HeadingMatches(text, 0),
              LAMBDA matches :
                IF matches = <<>> THEN [k \in {"summary"} |-> Strip(text)]
                ELSE SectionLoop(text, matches, 1, EmptyDict))

-----------------------------------------------------------------------------
(* merge_sets                                                              *)

\* the characters of the model in code point order; U+017F comes after them
CodeOrder ==
    "\t\n !#%&()*+,-./0123456789:;<=>?@ABCDEFGHIJKLMNOPQRSTUVWXYZ_abcdefghijklmnopqrstuvwxyz"

Ord(c) == IF c = LongS THEN 383 ELSE IndexIn(c, CodeOrder)

\* a < b for str
RECURSIVE StrLess(_, _)
StrLess(a, b) ==
    IF b = "" THEN FALSE
    ELSE IF a = "" THEN TRUE
    ELSE IF Ch(a, 1) = Ch(b, 1) THEN StrLess(Drop(a, 1), Drop(b, 1))
    ELSE Ord(Ch(a, 1)) < Ord(Ch(b, 1))

\* sorted(list(S), key=lambda x: x.lower()): the sort is stable, so elements
\* with equal keys stay in the order in which the set S is iterated, which is
\* the order of the string hashes of the process; every order is possible
RECURSIVE SortedByLower(_)
SortedByLower(S) ==
    IF S = {} THEN {<<>>}
    ELSE LET firsts == {x \in S : \A y \in S : ~StrLess(Lower(y), Lower(x))}
         IN  UNION {{<<x>> \o rest : rest \in SortedByLower(S \ {x})} : x \in firsts}

\* the lists merge_sets can return for the sets in the sequence sets
merge_sets(sets) ==
    SortedByLower({Strip(item) : item \in UNION {sets[i] : i \in 1..Len(sets)}})

-----------------------------------------------------------------------------
(* Experience extraction                                                   *)
(* The model alphabet is ASCII: of the dashes and bullet glyphs of the     *)
(* source it has "-" and "*".                                              *)

MONTHS == <<"Jan", "Feb", "Mar", "Apr", "May", "Jun", "Jul", "Aug", "Sep", "Sept",
            "Oct", "Nov", "Dec">>

\* (?:Jan|Feb|...)[a-z]*\s+\d{4}
MonthYear ==
    ReCat(<<ReAlt([i \in 1..Len(MONTHS) |-> ReLit(MONTHS[i])]),
            ReStar(ReCls(Chars(LowerLetters))), RePlus(ReCls(SpaceChars)), ReRep(Digit, 4, 4)>>)

DATE_RANGE_REGEX ==
    ReCat(<<ReCap("start", ReAlt(<<MonthYear, ReRep(Digit, 4, 4)>>)),
            ReStar(ReCls(SpaceChars)),
            ReAlt(<<ReLit("-"), ReLit("to"), ReLit("through"), ReLit("until")>>),
            ReStar(ReCls(SpaceChars)),
            ReCap("end", ReAlt(<<ReLit("Present"), ReLit("Current"), ReLit("Now"),
                                 ReLit("Till date"), ReLit("Until now"),
                                 MonthYear, ReRep(Digit, 4, 4)>>))>>)

BulletChars == {"-", "*"}

\* re.sub(r"\s+", " ", line)
RECURSIVE CollapseSpaces(_, _, _)
CollapseSpaces(s, a, b) ==
    IF a > b THEN ""
    ELSE IF a = b
    THEN (IF ~IsSpace(Ch(s, a)) THEN Ch(s, a)
          ELSE IF a > 1 /\ IsSpace(Ch(s, a - 1)) THEN "" ELSE " ")
    ELSE CollapseSpaces(s, a, (a + b) \div 2) \o CollapseSpaces(s, (a + b) \div 2 + 1, b)

clean_line(line) ==
    LET bullets == ClsRun(ReCls(BulletChars), line, 0, FALSE)
        rest == IF bullets > 0 THEN LStrip(Drop(line, bullets)) ELSE line
    IN  Strip(CollapseSpaces(rest, 1, Len(rest)))

RECURSIVE JoinWith(_, _)
JoinWith(sep, parts) ==
    IF parts = <<>> THEN ""
    ELSE IF Len(parts) = 1 THEN parts[1]
    ELSE parts[1] \o sep \o JoinWith(sep, Tail(parts))

BlockOf(buf) == JoinWith(" ", [i \in 1..Len(buf) |-> clean_line(buf[i])])

\* the blocks of extract_experience: lines[i..], buf the lines of the open block
RECURSIVE BlocksFrom(_, _, _)
BlocksFrom(lines, i, buf) ==
    IF i > Len(lines) THEN (IF buf # <<>> THEN <<BlockOf(buf)>> ELSE <<>>)
    ELSE IF Strip(lines[i]) = ""
    THEN (IF buf # <<>> THEN <<BlockOf(buf)>> ELSE <<>>) \o BlocksFrom(lines, i + 1, <<>>)
    ELSE BlocksFrom(lines, i + 1, Append(buf, Strip(lines[i])))

-----------------------------------------------------------------------------
(* Inputs of the request checks                                            *)

\* the lines of a resume; a request text is made of up to MaxTextLines of them
RESUME ==
    <<"Jane Doe",
      "Experience",
      "Software Engineer at Acme Labs, Jan 2020 - Present",
      "Backend Developer and Software Engineer",
      "Skills",
      "C++ REACT senior">>

RECURSIVE JoinLines(_)
JoinLines(lines) ==
    IF lines = <<>> THEN ""
    ELSE IF Len(lines) = 1 THEN lines[1]
    ELSE lines[1] \o "\n" \o JoinLines(Tail(lines))

RECURSIVE PickLines(_, _)
PickLines(lines, picked) ==
    IF lines = <<>> THEN <<>>
    ELSE (IF Len(lines) \in {Len(RESUME) - i + 1 : i \in picked} THEN <<Head(lines)>> ELSE <<>>)
            \o PickLines(Tail(lines), picked)

RequestTexts ==
    {JoinLines(PickLines(RESUME, picked)) :
        picked \in {P \in SUBSET (1..Len(RESUME)) : Cardinality(P) \in 1..MaxTextLines}}
        \cup {"", "  "}

\* what the statistical recognizer may tag
NerPool ==
    {[phrase |-> <<"REACT">>, label |-> "SKILL"],
     [phrase |-> <<"senior">>, label |-> "SKILL"],
     [phrase |-> <<"Acme", "Labs">>, label |-> "ORG"],
     [phrase |-> <<"Jane">>, label |-> "PERSON"]}

\* what the pattern files of the entity ruler may hold
RulerPool ==
    {[phrase |-> <<"C++">>, label |-> "SKILL"],
     [phrase |-> <<"Acme">>, label |-> "ORG"]}

UpTo(pool, n) == {T \in SUBSET pool : Cardinality(T) <= n}

-----------------------------------------------------------------------------
(* Inputs of the experience checks: texts of up to MaxBlocks blocks,       *)
(* separated by an empty line                                              *)

BlockPool ==
    {"Software Engineer at Acme Technologies, Jan 2020 - Present",
     "software engineer at ACME Technologies, jan 2020 - present",
     "Developer at Beta Corp, 2019 - 2021",
     "Acme Labs Engineer then Developer at Beta Corp",
     "abc"}

BlockSeqs == UNION {[1..n -> BlockPool] : n \in 1..MaxBlocks}

ExpInputs == {JoinWith("\n\n", blocks) : blocks \in BlockSeqs}

\* what the pattern files of the entity ruler may hold in these checks
ExpRulerPool ==
    {[phrase |-> <<"Software", "Engineer">>, label |-> "JOB_TITLE"],
     [phrase |-> <<"Acme", "Technologies">>, label |-> "ORG"]}

\* what the statistical recognizer may tag in these checks
ExpNerPool ==
    {[phrase |-> <<"Acme", "Labs">>, label |-> "ORG"],
     [phrase |-> <<"Beta", "Corp">>, label |-> "ORG"],
     [phrase |-> <<"Engineer">>, label |-> "JOB_TITLE"],
     [phrase |-> <<"Developer">>, label |-> "JOB_TITLE"]}

-----------------------------------------------------------------------------
(* What the extractors that read nothing but the text return, computed     *)
(* once for each text of the request checks and each block of its          *)
(* experience section                                                      *)

RuleBased(text) ==
    [fullname |-> extract_name_fallback(text),
     email |-> extract_email_regex(text),
     phone |-> extract_phone_number(text),
     skills |-> extract_skills_dict(text),
     titles |-> extract_job_titles_dict(text),
     orgs |-> extract_orgs_dict(text),
     sections |-> split_resume_sections(text),
     date_range |-> ReSearch(DATE_RANGE_REGEX, text, TRUE)]

Blocks(experience_text) == BlocksFrom(SplitLines(experience_text), 1, <<>>)

\* a value of the table when the table holds the key, else computed
MemoGet(table, key, Compute(_)) == IF key \in DOMAIN table THEN table[key] ELSE Compute(key)

ExperienceTexts ==
    ({DictGet(split_resume_sections(t), "experience", "") : t \in RequestTexts} \ {""})
        \cup ExpInputs

BLOCKS == [t \in ExperienceTexts |-> Blocks(t)]

blocks_of(experience_text) == MemoGet(BLOCKS, experience_text, Blocks)

MemoTexts ==
    RequestTexts \cup UNION {{b[i] : i \in 1..Len(b)} : b \in {BLOCKS[e] : e \in DOMAIN BLOCKS}}

RULE_BASED == [t \in MemoTexts |-> RuleBased(t)]

rule_based(text) == MemoGet(RULE_BASED, text, RuleBased)

TOKENS == [t \in MemoTexts |-> Tokenize(t)]

tokens_of(text) == MemoGet(TOKENS, text, Tokenize)

-----------------------------------------------------------------------------
(* The documents of the recognition engine                                 *)

\* Span.text of doc[start:end] (token indexes from 1, end exclusive)
RECURSIVE SpanText(_, _, _)
SpanText(tokens, start, end) ==
    IF start >= end THEN ""
    ELSE tokens[start].text
            \o (IF tokens[start].ws /\ start + 1 < end THEN " " ELSE "")
            \o SpanText(tokens, start + 1, end)

\* the spans where a component finds one of its phrases
Occurrences(tokens, tagger) ==
    {[start |-> i, end |-> i + Len(pl.phrase), label |-> pl.label] :
        <<i, pl>> \in {<<j, q>> \in (1..Len(tokens)) \X tagger :
                        /\ j + Len(q.phrase) - 1 <= Len(tokens)
                        /\ \A k \in 1..Len(q.phrase) : tokens[j + k - 1].text = q.phrase[k]}}

Overlap(a, b) == a.start < b.end /\ b.start < a.end

\* the longest, then leftmost, of the candidates
BestSpan(cands) ==
    CHOOSE a \in cands : \A b \in cands :
        \/ a.end - a.start > b.end - b.start
        \/ a.end - a.start = b.end - b.start /\ a.start <= b.start

\* a component adds its spans, longest first, where no span is set yet
RECURSIVE AddSpans(_, _)
AddSpans(cands, taken) ==
    LET free == {a \in cands : \A b \in taken : ~Overlap(a, b)}
    IN  IF free = {} THEN taken
        ELSE AddSpans(free \ {BestSpan(free)}, taken \cup {BestSpan(free)})

\* a set of spans in document order
RECURSIVE SpansInOrder(_)
SpansInOrder(spans) ==
    IF spans = {} THEN <<>>
    ELSE LET first == CHOOSE a \in spans : \A b \in spans : a.start <= b.start
         IN  <<first>> \o SpansInOrder(spans \ {first})

\* the entities of a document: the spans, in order, with their text
EntsOf(tokens, ordered) ==
    [i \in 1..Len(ordered) |->
        [start |-> ordered[i].start, end |-> ordered[i].end, label |-> ordered[i].label,
         text |-> SpanText(tokens, ordered[i].start, ordered[i].end)]]

\* nlp(text) for a pipeline whose ruler tags ruler and whose recognizer
\* tags ner (either is {} when the component is absent)
nlp(text, ruler, ner) ==
    With(tokens_of(text),
         LAMBDA tokens :
            [tokens |-> tokens,
             ents |-> EntsOf(tokens,
                        SpansInOrder(AddSpans(Occurrences(tokens, ner),
                                              AddSpans(Occurrences(tokens, ruler), {}))))])

\* Token.ent_type_
EntType(doc, i) ==
    LET covering == {k \in 1..Len(doc.ents) : doc.ents[k].start <= i /\ i < doc.ents[k].end}
    IN  IF covering = {} THEN "" ELSE doc.ents[CHOOSE k \in covering : TRUE].label

\* Token.is_punct
PunctChars == {",", ":", ";", ".", "-", "@", "&", "#", "*", "(", ")", "!", "?", "/", "%"}
IsPunct(tok) == Len(tok.text) = 1 /\ tok.text \in PunctChars

extract_email_spacy(doc) ==
    LET hits == {i \in 1..Len(doc.tokens) : doc.tokens[i].like_email}
    IN  IF hits = {} THEN "" ELSE doc.tokens[CHOOSE i \in hits : \A j \in hits : i <= j].text

extract_name_ml(doc) ==
    LET hits == {i \in 1..Len(doc.ents) : doc.ents[i].label = "PERSON"}
    IN  IF hits = {} THEN "" ELSE doc.ents[CHOOSE i \in hits : \A j \in hits : i <= j].text

ORG_LABELS == {"ORG", "ORGANIZATION"}

EntTexts(doc, labels) == {doc.ents[i].text : i \in {k \in 1..Len(doc.ents) : doc.ents[k].label \in labels}}

\* the three sets returned by extract_entities_ml
extract_entities_ml(doc) ==
    [skills |-> {sk \in {canonical_skill(e) : e \in EntTexts(doc, {"SKILL"})} :
                    Lower(sk) \notin SKILL_STOPWORDS},
     titles |-> EntTexts(doc, {"JOB_TITLE"}),
     orgs |-> EntTexts(doc, ORG_LABELS)]

-----------------------------------------------------------------------------
(* Experience extraction: the matcher and the loop over blocks             *)

\* the token patterns of build_experience_matcher, in the order they are added
TITLE_AT_ORG ==
    <<[attr |-> "ENT_TYPE", vals |-> {"JOB_TITLE"}, op |-> "+"],
      [attr |-> "LOWER", vals |-> {"at", "@", "with", "-"}, op |-> "1"],
      [attr |-> "ENT_TYPE", vals |-> ORG_LABELS, op |-> "+"]>>

ORG_TITLE ==
    <<[attr |-> "ENT_TYPE", vals |-> ORG_LABELS, op |-> "+"],
      [attr |-> "IS_PUNCT", vals |-> {TRUE}, op |-> "?"],
      [attr |-> "LOWER", vals |-> {"-", "@", "as", ":", ","}, op |-> "?"],
      [attr |-> "ENT_TYPE", vals |-> {"JOB_TITLE"}, op |-> "+"]>>

TITLE_COMMA_ORG ==
    <<[attr |-> "ENT_TYPE", vals |-> {"JOB_TITLE"}, op |-> "+"],
      [attr |-> "IS_PUNCT", vals |-> {TRUE}, op |-> "?"],
      [attr |-> "LOWER", vals |-> {",", "-"}, op |-> "?"],
      [attr |-> "ENT_TYPE", vals |-> ORG_LABELS, op |-> "+"]>>

EXPERIENCE_MATCHER == <<TITLE_AT_ORG, ORG_TITLE, TITLE_COMMA_ORG>>

ItemMatches(item, doc, i) ==
    /\ i <= Len(doc.tokens)
    /\ CASE item.attr = "ENT_TYPE" -> EntType(doc, i) \in item.vals
         [] item.attr = "LOWER" -> Lower(doc.tokens[i].text) \in item.vals
         [] item.attr = "IS_PUNCT" -> IsPunct(doc.tokens[i]) \in item.vals

\* where a match of pattern[k..] that starts at token i can end; again says
\* that the "+" item k has matched a token already
RECURSIVE PatternEnds(_, _, _, _, _)
PatternEnds(pattern, k, doc, i, again) ==
    IF k > Len(pattern) THEN {i}
    ELSE LET item == pattern[k]
             hit == ItemMatches(item, doc, i)
         IN  CASE item.op = "1" ->
                    IF hit THEN PatternEnds(pattern, k + 1, doc, i + 1, FALSE) ELSE {}
               [] item.op = "?" ->
                    PatternEnds(pattern, k + 1, doc, i, FALSE)
                        \cup (IF hit THEN PatternEnds(pattern, k + 1, doc, i + 1, FALSE) ELSE {})
               [] item.op = "+" ->
                    (IF again THEN PatternEnds(pattern, k + 1, doc, i, FALSE) ELSE {})
                        \cup (IF hit THEN PatternEnds(pattern, k, doc, i + 1, TRUE) ELSE {})

\* every match of every pattern: the Matcher reports all of them
MatchSet(doc) ==
    UNION {{[rule |-> rs[1], start |-> rs[2], end |-> en] :
                en \in PatternEnds(EXPERIENCE_MATCHER[rs[1]], 1, doc, rs[2], FALSE)} :
            rs \in (1..Len(EXPERIENCE_MATCHER)) \X (1..Len(doc.tokens))}

\* the Matcher reports a match when it is completed, scanning the tokens
\* once: by end, then start, then the order in which the patterns were added
MatchBefore(a, b) ==
    \/ a.end < b.end
    \/ a.end = b.end /\ a.start < b.start
    \/ a.end = b.end /\ a.start = b.start /\ a.rule < b.rule

RECURSIVE MatchesInOrder(_)
MatchesInOrder(ms) ==
    IF ms = {} THEN <<>>
    ELSE LET first == CHOOSE a \in ms : \A b \in ms \ {a} : MatchBefore(a, b)
         IN  <<first>> \o MatchesInOrder(ms \ {first})

\* pick_longest over the entities of doc.ents with the indexes idx; the
\* result None is written ""
pick_longest(doc, idx) ==
    IF idx = {} THEN ""
    ELSE LET best == CHOOSE i \in idx :
                        \A j \in idx : \/ Len(doc.ents[i].text) > Len(doc.ents[j].text)
                                       \/ Len(doc.ents[i].text) = Len(doc.ents[j].text) /\ i <= j
         IN  Strip(doc.ents[best].text)

\* span.ents of doc[start:end] with a label of labels
EntsWithin(doc, start, end, labels) ==
    {i \in 1..Len(doc.ents) :
        doc.ents[i].start >= start /\ doc.ents[i].end <= end /\ doc.ents[i].label \in labels}

\* the loop of extract_experience over matches[i..]
RECURSIVE MatchLoop(_, _, _, _, _)
MatchLoop(doc, matches, i, title_text, org_text) ==
    IF i > Len(matches) THEN [title |-> title_text, org |-> org_text]
    ELSE LET m == matches[i]
             cand_title == pick_longest(doc, EntsWithin(doc, m.start, m.end, {"JOB_TITLE"}))
             cand_org == pick_longest(doc, EntsWithin(doc, m.start, m.end, ORG_LABELS))
             title2 == IF cand_title # "" /\ title_text = "" THEN cand_title ELSE title_text
             org2 == IF cand_org # "" /\ org_text = "" THEN cand_org ELSE org_text
         IN  IF title2 # "" /\ org2 # "" THEN [title |-> title2, org |-> org2]
             ELSE MatchLoop(doc, matches, i + 1, title2, org2)

\* detect_date_range with the search of DATE_RANGE_REGEX left out
detect_date_range_entities(text, doc) ==
    LET dates == SelectSeq(doc.ents, LAMBDA e : e.label = "DATE")
    IN  IF Len(dates) >= 2 THEN dates[1].text \o " - " \o dates[2].text
        ELSE IF Len(dates) = 1 THEN dates[1].text
        ELSE ""

detect_date_range(text, doc) ==
    With(rule_based(text).date_range,
         LAMBDA m :
            LET dates == SelectSeq(doc.ents, LAMBDA e : e.label = "DATE")
            IN  IF m.start # NoMatch
                THEN Group(text, m, "start") \o " - " \o Group(text, m, "end")
                ELSE IF Len(dates) >= 2 THEN dates[1].text \o " - " \o dates[2].text
                ELSE IF Len(dates) = 1 THEN dates[1].text
                ELSE "")

\* sorted(S, key=lambda x: len(x), reverse=True)[0]: the sort is stable, so
\* among the longest elements the one the set iteration meets first wins
LongestOf(S) == {x \in S : \A y \in S : Len(y) <= Len(x)}

\* the entries one block can produce: a set of lists of zero or one entry
\* doc is nlp(block), matched what the loop over the matches found,
\* dict_titles and dict_orgs what the dictionaries find in the block
EntriesOf(doc, matched, dict_titles, dict_orgs, date_range) ==
    LET title1 == IF matched.title = ""
                  THEN pick_longest(doc, EntsWithin(doc, 1, Len(doc.tokens) + 1, {"JOB_TITLE"}))
                  ELSE matched.title
        org1 == IF matched.org = ""
                THEN pick_longest(doc, EntsWithin(doc, 1, Len(doc.tokens) + 1, ORG_LABELS))
                ELSE matched.org
        titles == IF title1 = "" /\ dict_titles # {} THEN LongestOf(dict_titles) ELSE {title1}
        orgs == IF org1 = "" /\ dict_orgs # {} THEN LongestOf(dict_orgs) ELSE {org1}
    IN  {IF t # "" \/ o # "" \/ date_range # ""
         THEN <<[job_title |-> t, company_name |-> o, date_range |-> date_range]>>
         ELSE <<>> : <<t, o>> \in titles \X orgs}

BlockEntries(block, ruler, ner) ==
    IF Len(block) < 5 THEN {<<>>}
    ELSE With(nlp(block, ruler, ner),
              LAMBDA doc :
                With(rule_based(block),
                     LAMBDA rb :
                        EntriesOf(doc, MatchLoop(doc, MatchesInOrder(MatchSet(doc)), 1, "", ""),
                                  rb.titles, rb.orgs, detect_date_range(block, doc))))

\* the lists results can hold after the loop over blocks[i..]
RECURSIVE ResultsFrom(_, _, _, _)
ResultsFrom(blocks, i, ruler, ner) ==
    IF i > Len(blocks) THEN {<<>>}
    ELSE {e \o rest : <<e, rest>> \in BlockEntries(blocks[i], ruler, ner)
                                        \X ResultsFrom(blocks, i + 1, ruler, ner)}

EXP_KEYS == <<"job_title", "company_name", "date_range">>

SameEntry(a, b) ==
    \A i \in 1..Len(EXP_KEYS) : Lower(a[EXP_KEYS[i]]) = Lower(b[EXP_KEYS[i]])

AllEmpty(e) == e.job_title = "" /\ e.company_name = "" /\ e.date_range = ""

\* the final loop of extract_experience with nothing dropped
Dedupe_keep_all(results, i, prev) == SubSeq(results, i, Len(results))

\* the final loop of extract_experience over results[i..]; prev is a list of
\* zero or one entry
RECURSIVE Dedupe(_, _, _)
Dedupe(results, i, prev) ==
    IF i > Len(results) THEN <<>>
    ELSE IF AllEmpty(results[i]) THEN Dedupe(results, i + 1, prev)
    ELSE IF prev # <<>> /\ SameEntry(prev[1], results[i]) THEN Dedupe(results, i + 1, prev)
    ELSE <<results[i]>> \o Dedupe(results, i + 1, <<results[i]>>)

\* the lists extract_experience can return
extract_experience(experience_text, ruler, ner) ==
    IF experience_text = "" THEN {<<>>}
    ELSE {Dedupe(results, 1, <<>>) :
            results \in ResultsFrom(blocks_of(experience_text), 1, ruler, ner)}

-----------------------------------------------------------------------------
(* parse_resume                                                            *)

Tags(component, tags) == IF component \in {pipe_names[i] : i \in 1..Len(pipe_names)} THEN tags ELSE {}

\* nlp(text) with the pipeline of the process
Nlp(text) == nlp(text, Tags("entity_ruler", rulerTags), Tags("ner", nerTags))

\* ruler_skills with the stop-word test left out
ruler_skills_unfiltered(doc_r) ==
    IF ENTITY_RULER # None
    THEN {canonical_skill(e) : e \in EntTexts(doc_r, {"SKILL"})}
    ELSE {}

\* the set ruler_skills of parse_resume, doc_r the document of the second
\* call of nlp
ruler_skills(doc_r) ==
    IF ENTITY_RULER # None
    THEN {sk \in {canonical_skill(e) : e \in EntTexts(doc_r, {"SKILL"})} :
            Lower(sk) \notin SKILL_STOPWORDS}
    ELSE {}

NoEntities == [skills |-> {}, titles |-> {}, orgs |-> {}]

\* the responses parse_resume can give for a request with the field text,
\* when the components of the pipeline tag the phrases ruler and ner
Responses(text, ruler, ner) ==
    IF Strip(text) = ""
    THEN {[status |-> 400, error |-> "Invalid request. 'text' field is required."]}
    ELSE
    With(nlp(text, ruler, ner), LAMBDA doc :
    With(rule_based(text), LAMBDA rb :
    LET experience_text == DictGet(rb.sections, "experience", "")
        ml_fullname == IF HYBRID_USE_ML /\ ML_AVAILABLE THEN extract_name_ml(doc) ELSE ""
        ml == IF HYBRID_USE_ML /\ ML_AVAILABLE THEN extract_entities_ml(doc) ELSE NoEntities
        spacy_email == extract_email_spacy(doc)
        email == IF spacy_email # "" THEN spacy_email ELSE rb.email
        full_name == IF ml_fullname # "" THEN ml_fullname ELSE rb.fullname
    IN  {[status |-> 200,
          fullName |-> full_name,
          email |-> email,
          phoneNumber |-> rb.phone,
          skills |-> [i \in 1..Len(skills) |-> [skillName |-> skills[i]]],
          jobTitles |-> job_titles,
          organizations |-> organizations,
          experiences |-> [i \in 1..Len(exps) |->
                            [jobTitle |-> exps[i].job_title,
                             companyName |-> exps[i].company_name,
                             dateRange |-> exps[i].date_range]],
          projects |-> <<>>] :
            <<skills, job_titles, organizations, exps>> \in
                merge_sets(<<ml.skills, rb.skills, ruler_skills(doc)>>)
                    \X merge_sets(<<ml.titles, rb.titles>>)
                    \X merge_sets(<<rb.orgs, ml.orgs>>)
                    \X extract_experience(experience_text, ruler, ner)}))

\* parse_resume with the pipeline of the process
parse_resume(text) == Responses(text, Tags("entity_ruler", rulerTags), Tags("ner", nerTags))

-----------------------------------------------------------------------------
(* Inputs of the canonical_skill checks                                    *)

CanonAlphabet == {"j", "s", "S", "a", " ", "+", LongS}

RECURSIVE StringsUpTo(_, _)
StringsUpTo(alphabet, n) ==
    IF n = 0 THEN {""}
    ELSE LET shorter == StringsUpTo(alphabet, n - 1)
         IN  shorter \cup {s \o c : s \in shorter, c \in alphabet}

AliasValues == {SKILL_ALIASES[k] : k \in SKILL_ALIAS_KEYS}

\* surface forms as a resume may spell them: padded, upper-cased, with a long s
SurfaceForms ==
    {" py ", "\tnode\n", "GCP", "Gcp", "AWS", "Aws", "c++", "C#", ".net", ".NET",
     "NodeJS", "React.js", "senior", "spring boot", "aw" \o LongS,
     LongS \o "ql server", "Postgre" \o LongS}

CanonInputs ==
    SKILL_ALIAS_KEYS \cup AliasValues \cup SKILL_TAXONOMY
        \cup {Lower(k) : k \in SKILL_TAXONOMY} \cup {Upper(k) : k \in SKILL_TAXONOMY}
        \cup SurfaceForms \cup StringsUpTo(CanonAlphabet, MaxCanonLen)

-----------------------------------------------------------------------------
(* Inputs of the sectioning checks: texts of up to MaxLines lines          *)

HeadingLines == {"Skills", "SKILLS :", " Work History", LongS \o "kills"}

BodyLines == {"Python", ":", "", "my skills"}

LinePool == HeadingLines \cup BodyLines

LineSeqs == UNION {[1..n -> LinePool] : n \in 1..MaxLines}

\* parse_resume calls split_resume_sections only on a text that has a
\* non-space character
SegInputs == {lines \in LineSeqs : Strip(JoinLines(lines)) # ""}

-----------------------------------------------------------------------------
(* Specification of the canonical_skill checks: the function is applied    *)
(* to a surface form, then to its own result.                              *)

\* Each specification below drives one part of the program and leaves the
\* variables of the other parts at rest.
IdleCanon == cInput = "" /\ cFirst = "" /\ cOut = "" /\ cCalls = 0

NoResponse == [status |-> 0]

IdleReq == rText = "" /\ rCount = 0 /\ rResponse = NoResponse /\ rPrev = NoResponse

IdleShared ==
    /\ ML_AVAILABLE = FALSE /\ HYBRID_USE_ML = TRUE /\ pipe_names = <<>>
    /\ ENTITY_RULER = None /\ rulerTags = {} /\ nerTags = {}

IdleSeg == sLines = <<>> /\ sText = "" /\ sSections = EmptyDict /\ sDone = FALSE

IdleExp == eBlocks = <<>> /\ eText = "" /\ eOut = <<>> /\ eDone = FALSE

NoPipeline == [pipe_names |-> <<>>, patterns |-> {}]

IdleInst == iFiles = EmptyDict /\ iCalls = 0 /\ iFault = "" /\ iBefore = NoPipeline

IdleServe == inflight = <<>>

InitCanon ==
    /\ cInput \in CanonInputs
    /\ cFirst = ""
    /\ cOut = cInput
    /\ cCalls = 0
    /\ IdleSeg
    /\ IdleShared
    /\ IdleReq
    /\ IdleExp
    /\ IdleInst
    /\ IdleServe

Canonicalize ==
    /\ cCalls < 2
    /\ cOut' = canonical_skill(cOut)
    /\ cFirst' = IF cCalls = 0 THEN canonical_skill(cOut) ELSE cFirst
    /\ cCalls' = cCalls + 1
    /\ UNCHANGED <<cInput, segVars, sharedVars, reqVars, expVars, instVars, srvVars>>

NextCanon == Canonicalize

SpecCanon == InitCanon /\ [][NextCanon]_vars

-----------------------------------------------------------------------------
(* Specification of the sectioning checks: split_resume_sections is        *)
(* called once on a text.                                                  *)

InitSeg ==
    /\ sLines \in SegInputs
    /\ sText = JoinLines(sLines)
    /\ sSections = EmptyDict
    /\ sDone = FALSE
    /\ IdleCanon
    /\ IdleShared
    /\ IdleReq
    /\ IdleExp
    /\ IdleInst
    /\ IdleServe

Segment ==
    /\ ~sDone
    /\ sSections' = split_resume_sections(sText)
    /\ sDone' = TRUE
    /\ UNCHANGED <<sLines, sText, canonVars, sharedVars, reqVars, expVars, instVars, srvVars>>

NextSeg == Segment

SpecSeg == InitSeg /\ [][NextSeg]_vars

-----------------------------------------------------------------------------
(* C1: canonical_skill is idempotent: applying it to its own result        *)
(* returns that result, for every surface form.                            *)
C1_Idempotent == cCalls = 2 => cOut = cFirst

-----------------------------------------------------------------------------
(* Specification of the request checks: the process has been initialized   *)
(* (load_nlp, try_add_entity_ruler) and parse_resume handles a request,    *)
(* then the same request again; the process may have been restarted in     *)
(* between, so the iteration order of its sets is chosen anew.             *)

\* the states load_nlp and try_add_entity_ruler leave behind
Init ==
    /\ \E model \in {"custom", "default", "blank"} :
          /\ ML_AVAILABLE = (model = "custom")
          /\ rulerTags \in UpTo(RulerPool, MaxRulerTags)
          /\ nerTags \in (IF model = "blank" THEN {{}} ELSE UpTo(NerPool, MaxNerTags))
          /\ ENTITY_RULER = IF rulerTags # {} THEN "entity_ruler" ELSE None
          \* a call that ends in its last handler leaves an empty ruler behind
          /\ \E left \in (IF rulerTags # {} THEN {TRUE} ELSE BOOLEAN) :
                pipe_names = (IF left THEN <<"entity_ruler">> ELSE <<>>)
                                \o (IF model = "blank" THEN <<>> ELSE <<"ner">>)
    /\ HYBRID_USE_ML \in BOOLEAN
    /\ IdleReq
    /\ IdleCanon
    /\ IdleSeg
    /\ IdleExp
    /\ IdleInst
    /\ IdleServe

Handle(text) ==
    /\ rText' = text
    /\ rCount' = rCount + 1
    /\ rPrev' = rResponse
    /\ rResponse' \in parse_resume(text)
    /\ UNCHANGED <<sharedVars, canonVars, segVars, expVars, instVars, srvVars>>

\* a request arrives
FirstRequest == rCount = 0 /\ \E text \in RequestTexts : Handle(text)

\* the same request arrives again
RepeatRequest == rCount >= 1 /\ rCount < MaxCalls /\ Handle(rText)

Next == FirstRequest \/ RepeatRequest

Spec == Init /\ [][Next]_vars

-----------------------------------------------------------------------------
(* Vocabulary of the request claims                                        *)

Handled == rCount >= 1 /\ rResponse.status = 200

SkillNames == {rResponse.skills[i].skillName : i \in 1..Len(rResponse.skills)}

Elements(list) == {list[i] : i \in 1..Len(list)}

\* the entities the entity ruler sets on the text of the request
RulerEnts ==
    LET ents == nlp(rText, Tags("entity_ruler", rulerTags), {}).ents
    IN  Elements(ents)

\* s holds sub
Contains(s, sub) ==
    \E i \in 1..(Len(s) - Len(sub) + 1) : SubSeq(s, i, i + Len(sub) - 1) = sub

\* the text with the letters lowered and each run of whitespace made one
\* space, between two spaces
SpacedWords(text) == " " \o CollapseSpaces(Lower(text), 1, Len(text)) \o " "

\* the term occurs in the text as whole space-delimited words
OccursAsWord(term, text) == Contains(SpacedWords(text), " " \o Lower(term) \o " ")

(* C2: two invocations of parse_resume on the same text with the same      *)
(* configuration give the same response, whatever order the sets are       *)
(* iterated in.                                                            *)
C2_Deterministic == (rCount >= 2 /\ rResponse.status = 200) => rResponse = rPrev

(* C3: no two entries of the final skills list are equal when compared     *)
(* case-insensitively.                                                     *)
C3_CaseInsensitiveSet ==
    Handled =>
        \A i, j \in 1..Len(rResponse.skills) :
            i # j => Lower(rResponse.skills[i].skillName) # Lower(rResponse.skills[j].skillName)

(* C4: every span the installed entity ruler tags as SKILL, JOB_TITLE or   *)
(* ORG appears in the corresponding final list (a skill in its canonical   *)
(* form, unless it is a stop-word), also when the learned model is         *)
(* unavailable or switched off.                                            *)
C4_TaggerUnion ==
    Handled =>
        \A e \in RulerEnts :
            /\ e.label = "SKILL" /\ Lower(canonical_skill(e.text)) \notin SKILL_STOPWORDS
                    => canonical_skill(e.text) \in SkillNames
            /\ e.label = "JOB_TITLE" => Strip(e.text) \in Elements(rResponse.jobTitles)
            /\ e.label \in ORG_LABELS => Strip(e.text) \in Elements(rResponse.organizations)

(* C5: with HYBRID_USE_ML off, the response to a text is one that          *)
(* parse_resume gives when the recognition model reports no entity at all: *)
(* the entities of the model do not show in any field.                     *)
C5_SwitchOffIgnoresModel ==
    (Handled /\ ~HYBRID_USE_ML)
        => rResponse \in Responses(rText, Tags("entity_ruler", rulerTags), {})

(* C6: with HYBRID_USE_ML off, every keyword of the skill taxonomy and     *)
(* every alias key that occurs in the text as whole space-delimited words  *)
(* has its canonical form in the final skills, and every job title of the  *)
(* vocabulary that occurs so is in jobTitles.                              *)
C6_DictionaryComplete ==
    (Handled /\ ~HYBRID_USE_ML) =>
        /\ \A kw \in SKILL_TAXONOMY :
              OccursAsWord(kw, rText) => canonical_skill(kw) \in SkillNames
        /\ \A alias \in SKILL_ALIAS_KEYS :
              OccursAsWord(alias, rText) => canonical_skill(SKILL_ALIASES[alias]) \in SkillNames
        /\ \A title \in JOB_TITLES :
              OccursAsWord(title, rText) => title \in Elements(rResponse.jobTitles)

(* C7: no entry of the final skills list has a lowercase form that is in   *)
(* SKILL_STOPWORDS, whatever the dictionary, the learned model and the     *)
(* entity ruler found.                                                     *)
C7_NoStopWords == Handled => \A sk \in SkillNames : Lower(sk) \notin SKILL_STOPWORDS

\* a request was handled in which a component tagged a stop-word as SKILL
\* and parse_resume read the SKILL entities of the document
C7_Witness ==
    /\ Handled
    /\ ENTITY_RULER # None \/ (HYBRID_USE_ML /\ ML_AVAILABLE)
    /\ \E e \in EntTexts(Nlp(rText), {"SKILL"}) : Lower(canonical_skill(e)) \in SKILL_STOPWORDS
    /\ rResponse.skills # <<>>

-----------------------------------------------------------------------------
(* Vocabulary of the sectioning claims, stated on the lines of the text    *)

\* a line that consists of a heading synonym in any letter case, with an
\* optional trailing colon and surrounding whitespace
LineCore(line) ==
    LET core == Strip(line)
    IN  IF core # "" /\ Ch(core, Len(core)) = ":" THEN RStrip(Take(core, Len(core) - 1))
        ELSE core

IsHeadingLine(line) == Lower(LineCore(line)) \in SynonymKeys

HeadingKey(line) == CANONICAL_BY_SYNONYM[Lower(LineCore(line))]

HeadingIndexes(lines) == {i \in 1..Len(lines) : IsHeadingLine(lines[i])}

\* the index of the first heading line after line i, or Len(lines) + 1
NextHeading(lines, i) ==
    LET later == {j \in HeadingIndexes(lines) : j > i}
    IN  IF later = {} THEN Len(lines) + 1 ELSE CHOOSE j \in later : \A k \in later : j <= k

\* the trimmed body of the heading at line i
BodyOf(lines, i) == Strip(JoinLines(SubSeq(lines, i + 1, NextHeading(lines, i) - 1)))

IsAscii(text) == \A i \in 1..Len(text) : Ch(text, i) # LongS

\* the text is a sequence of heading lines, each followed by a non-empty body
BuiltFromHeadings(lines) ==
    /\ lines # <<>>
    /\ IsHeadingLine(lines[1])
    /\ \A i \in HeadingIndexes(lines) : BodyOf(lines, i) # ""

\* the bodies of the headings of lines[i..], appended to the entries of d
RECURSIVE ExpectedSections(_, _, _)
ExpectedSections(lines, i, d) ==
    IF i > Len(lines) THEN d
    ELSE IF ~IsHeadingLine(lines[i]) THEN ExpectedSections(lines, i + 1, d)
    ELSE LET key == HeadingKey(lines[i])
             body == BodyOf(lines, i)
         IN  ExpectedSections(lines, i + 1,
                DictSet(d, key, IF key \in DOMAIN d THEN d[key] \o "\n\n" \o body ELSE body))

-----------------------------------------------------------------------------
(* C8: for an ASCII text built as heading lines, each followed by a        *)
(* non-empty body without heading line, split_resume_sections returns for  *)
(* each canonical key exactly the trimmed bodies of its headings, joined   *)
(* by a blank line in document order.                                      *)
C8_RoundTrip ==
    (sDone /\ IsAscii(sText) /\ BuiltFromHeadings(sLines))
        => sSections = ExpectedSections(sLines, 1, EmptyDict)

(* C9: every key of the dict returned by split_resume_sections is one of   *)
(* the six canonical section keys.                                         *)
C9_KeysCanonical == sDone => DOMAIN sSections \subseteq SECTION_KEYS

-----------------------------------------------------------------------------
(* Specification of the experience checks: the process has been            *)
(* initialized and extract_experience is called once on a text.            *)

InitExp ==
    /\ eBlocks \in BlockSeqs
    /\ eText = JoinWith("\n\n", eBlocks)
    /\ eOut = <<>>
    /\ eDone = FALSE
    /\ rulerTags \in SUBSET ExpRulerPool
    /\ nerTags \in SUBSET ExpNerPool
    /\ ENTITY_RULER = IF rulerTags # {} THEN "entity_ruler" ELSE None
    /\ pipe_names = (IF rulerTags # {} THEN <<"entity_ruler">> ELSE <<>>) \o <<"ner">>
    /\ ML_AVAILABLE = FALSE
    /\ HYBRID_USE_ML = TRUE
    /\ IdleCanon
    /\ IdleSeg
    /\ IdleReq
    /\ IdleInst
    /\ IdleServe

Extract ==
    /\ ~eDone
    /\ eOut' \in extract_experience(eText, Tags("entity_ruler", rulerTags), Tags("ner", nerTags))
    /\ eDone' = TRUE
    /\ UNCHANGED <<eBlocks, eText, canonVars, segVars, sharedVars, reqVars, instVars, srvVars>>

NextExp == Extract

SpecExp == InitExp /\ [][NextExp]_vars

-----------------------------------------------------------------------------
(* Vocabulary of the experience claims                                     *)

\* the documents of the blocks of the text
BlockDocs == [i \in 1..Len(eBlocks) |-> Nlp(eBlocks[i])]

\* the date ranges a block of the title-at-organization form may end with
DateRangeForms == {"Jan 2020 - Present", "2019 - 2021"}

\* the text of the tokens of doc from token i on
TextFrom(doc, i) == SpanText(doc.tokens, i, Len(doc.tokens) + 1)

\* doc reads "<title> at <organization>, <start> - <end>", with the title
\* the one JOB_TITLE entity and the organization the one ORG entity
TitleAtOrgForm(doc) ==
    /\ Len(doc.ents) = 2
    /\ doc.ents[1].label = "JOB_TITLE" /\ doc.ents[1].start = 1
    /\ doc.ents[1].end <= Len(doc.tokens) /\ doc.tokens[doc.ents[1].end].text = "at"
    /\ doc.ents[2].label = "ORG" /\ doc.ents[2].start = doc.ents[1].end + 1
    /\ doc.ents[2].end <= Len(doc.tokens) /\ doc.tokens[doc.ents[2].end].text = ","
    /\ TextFrom(doc, doc.ents[2].end + 1) \in DateRangeForms

-----------------------------------------------------------------------------
(* C11: for a single block "<title> at <organization>, <start> - <end>"    *)
(* whose title is tagged JOB_TITLE and whose organization is tagged ORG,   *)
(* extract_experience returns exactly one entry, with the whole title, the *)
(* whole organization and "<start> - <end>".                               *)
C11_TitleAtOrg ==
    (eDone /\ Len(eBlocks) = 1 /\ TitleAtOrgForm(BlockDocs[1])) =>
        eOut = <<[job_title |-> BlockDocs[1].ents[1].text,
                  company_name |-> BlockDocs[1].ents[2].text,
                  date_range |-> TextFrom(BlockDocs[1], BlockDocs[1].ents[2].end + 1)]>>

\* such a block has been handled, and the patterns matched parts of it too
C11_Witness ==
    /\ eDone /\ Len(eBlocks) = 1 /\ TitleAtOrgForm(BlockDocs[1])
    /\ Cardinality(MatchSet(BlockDocs[1])) > 1
    /\ Len(eOut) = 1 /\ eOut[1].company_name = "Acme Technologies"

-----------------------------------------------------------------------------
(* C12: in the list extract_experience returns, every entry has a          *)
(* non-empty field, no entry equals the entry before it when the fields    *)
(* are compared in lower case, and the entries are entries of the blocks,  *)
(* in the order of the blocks.                                             *)

\* the entries block i can give, each as a list of zero or one entry
EntriesOfBlock(i) ==
    BlockEntries(eBlocks[i], Tags("entity_ruler", rulerTags), Tags("ner", nerTags))

EqualIgnoringCase(a, b) ==
    /\ Lower(a.job_title) = Lower(b.job_title)
    /\ Lower(a.company_name) = Lower(b.company_name)
    /\ Lower(a.date_range) = Lower(b.date_range)

C12_Deduped ==
    eDone =>
        /\ \A i \in 1..Len(eOut) :
                eOut[i].job_title # "" \/ eOut[i].company_name # "" \/ eOut[i].date_range # ""
        /\ \A i \in 2..Len(eOut) : ~EqualIgnoringCase(eOut[i - 1], eOut[i])
        /\ \E f \in [1..Len(eOut) -> 1..Len(eBlocks)] :
                /\ \A i \in 2..Len(eOut) : f[i - 1] < f[i]
                /\ \A i \in 1..Len(eOut) : <<eOut[i]>> \in EntriesOfBlock(f[i])

\* two blocks that are written differently gave entries that differ in
\* case only, and one entry was returned
C12_Witness ==
    /\ eDone /\ Len(eBlocks) = 2 /\ eBlocks[1] # eBlocks[2]
    /\ \E a \in EntriesOfBlock(1), b \in EntriesOfBlock(2) :
            a # <<>> /\ b # <<>> /\ a # b /\ EqualIgnoringCase(a[1], b[1])
    /\ Len(eOut) = 1

-----------------------------------------------------------------------------
(* C17: for a block, the job title of its entry is the candidate of the    *)
(* first pattern, in the order TITLE_AT_ORG, ORG_TITLE, TITLE_COMMA_ORG,   *)
(* that has a match with a JOB_TITLE entity inside, and likewise for the   *)
(* organization, wherever in the block the matches lie.                    *)

\* the candidates the matches of pattern rule give for the labels, in the
\* order of the matches, the empty ones left out
RuleCandidates(doc, rule, labels) ==
    LET ms == SelectSeq(MatchesInOrder(MatchSet(doc)), LAMBDA m : m.rule = rule)
        cands == [i \in 1..Len(ms) |->
                    pick_longest(doc, EntsWithin(doc, ms[i].start, ms[i].end, labels))]
    IN  SelectSeq(cands, LAMBDA c : c # "")

\* the candidate of the first pattern in declared order that has one
FirstRuleCandidate(doc, labels) ==
    LET rules == {r \in 1..Len(EXPERIENCE_MATCHER) : RuleCandidates(doc, r, labels) # <<>>}
    IN  IF rules = {} THEN "" ELSE RuleCandidates(doc, MinOf(rules), labels)[1]

C17_RuleOrder ==
    (eDone /\ Len(eBlocks) = 1 /\ Len(eOut) = 1) =>
        /\ FirstRuleCandidate(BlockDocs[1], {"JOB_TITLE"}) # ""
                => eOut[1].job_title = FirstRuleCandidate(BlockDocs[1], {"JOB_TITLE"})
        /\ FirstRuleCandidate(BlockDocs[1], ORG_LABELS) # ""
                => eOut[1].company_name = FirstRuleCandidate(BlockDocs[1], ORG_LABELS)

-----------------------------------------------------------------------------
(* try_add_entity_ruler                                                    *)
(* A pattern file is a sequence of lines.  A line is a record with a label *)
(* and a pattern, text that json.loads rejects, or blank.                  *)

PatternLine(phrase, label) == [kind |-> "record", phrase |-> phrase, label |-> label]
MalformedLine == [kind |-> "malformed"]
BlankLine == [kind |-> "blank"]

\* the lines that are left by "if line.strip()"
NonBlank(lines) == SelectSeq(lines, LAMBDA l : l.kind # "blank")

\* [json.loads(line) for line in f if line.strip()] raises on a line that
\* is not JSON
ParseFails(lines) == \E i \in 1..Len(lines) : lines[i].kind = "malformed"

\* the patterns list of a file that parses
PatternsOf(lines) ==
    {[phrase |-> l.phrase, label |-> l.label] :
        l \in {NonBlank(lines)[i] : i \in 1..Len(NonBlank(lines))}}

\* the files of which ruler.add_patterns was given the patterns
LoadedFiles(files) ==
    {f \in DOMAIN files : ~ParseFails(files[f]) /\ PatternsOf(files[f]) # {}}

\* nlp.add_pipe(name, before=other if other in nlp.pipe_names else None)
AddPipe(pipes, name, other) ==
    IF \E i \in 1..Len(pipes) : pipes[i] = other
    THEN LET at == MinOf({i \in 1..Len(pipes) : pipes[i] = other})
         IN  SubSeq(pipes, 1, at - 1) \o <<name>> \o SubSeq(pipes, at, Len(pipes))
    ELSE Append(pipes, name)

\* nlp.remove_pipe(name)
RemovePipe(pipes, name) == SelectSeq(pipes, LAMBDA p : p # name)

HasPipe(pipes, name) == \E i \in 1..Len(pipes) : pipes[i] = name

\* the statements of try_add_entity_ruler in which an exception can be
\* raised that one of its handlers catches; "" when none is raised
Faults == {"", "add_pipe", "exists", "remove_pipe"}

\* try_add_entity_ruler without the test of nlp.pipe_names
try_add_entity_ruler_unguarded(pipes, patterns, files, fault) ==
    IF fault = "add_pipe"
    THEN [pipe_names |-> pipes, patterns |-> patterns, ruler |-> None]
    ELSE IF fault = "exists"
    THEN [pipe_names |-> AddPipe(pipes, "entity_ruler", "ner"), patterns |-> {},
          ruler |-> None]
    ELSE IF LoadedFiles(files) = {}
    THEN [pipe_names |-> IF fault = "remove_pipe" THEN AddPipe(pipes, "entity_ruler", "ner")
                         ELSE pipes,
          patterns |-> {}, ruler |-> None]
    ELSE [pipe_names |-> AddPipe(pipes, "entity_ruler", "ner"),
          patterns |-> UNION {PatternsOf(files[f]) : f \in LoadedFiles(files)},
          ruler |-> "entity_ruler"]

\* the pipeline, the patterns of its ruler and the value returned, for a
\* call made with the pipeline pipes whose ruler holds patterns
try_add_entity_ruler(pipes, patterns, files, fault) ==
    IF HasPipe(pipes, "entity_ruler")
    THEN [pipe_names |-> pipes, patterns |-> patterns, ruler |-> "entity_ruler"]
    ELSE try_add_entity_ruler_unguarded(pipes, patterns, files, fault)

-----------------------------------------------------------------------------
(* Specification of the installation checks: load_nlp has returned a       *)
(* pipeline and try_add_entity_ruler is called, up to MaxInstalls times.   *)

FileNames == {"skills.jsonl", "orgs.jsonl"}

FileLinePool ==
    {PatternLine(<<"C++">>, "SKILL"), PatternLine(<<"Acme">>, "ORG"), MalformedLine, BlankLine}

FileContents == UNION {[1..n -> FileLinePool] : n \in 0..MaxFileLines}

\* the files that exist, with their lines
FileSystems == UNION {[names -> FileContents] : names \in SUBSET FileNames}

\* the pipelines load_nlp returns: the custom model, en_core_web_sm, blank
LoadedPipelines == {<<"tok2vec", "ner">>, <<"ner">>, <<>>}

InitInstall ==
    /\ iFiles \in FileSystems
    /\ iCalls = 0
    /\ iFault = ""
    /\ iBefore = NoPipeline
    /\ pipe_names \in LoadedPipelines
    /\ ML_AVAILABLE = (pipe_names = <<"tok2vec", "ner">>)
    /\ HYBRID_USE_ML = TRUE
    /\ ENTITY_RULER = None
    /\ rulerTags = {}
    /\ nerTags = {}
    /\ IdleCanon
    /\ IdleSeg
    /\ IdleReq
    /\ IdleExp
    /\ IdleServe

\* ENTITY_RULER = try_add_entity_ruler(nlp)
Install ==
    /\ iCalls < MaxInstalls
    /\ \E fault \in Faults :
          /\ iFault' = fault
          /\ With(try_add_entity_ruler(pipe_names, rulerTags, iFiles, fault),
                  LAMBDA result :
                    /\ pipe_names' = result.pipe_names
                    /\ rulerTags' = result.patterns
                    /\ ENTITY_RULER' = result.ruler)
    /\ iBefore' = [pipe_names |-> pipe_names, patterns |-> rulerTags]
    /\ iCalls' = iCalls + 1
    /\ UNCHANGED <<iFiles, ML_AVAILABLE, HYBRID_USE_ML, nerTags, canonVars, segVars, reqVars,
                   expVars, srvVars>>

NextInstall == Install

SpecInstall == InitInstall /\ [][NextInstall]_vars

-----------------------------------------------------------------------------
(* C14: when a pattern file holds records and malformed lines, the call    *)
(* that installs the ruler loads every record of the file.                 *)

\* the latest call found no ruler in the pipeline and raised no exception
\* outside the reading of the files
InstallRan == iCalls >= 1 /\ ~HasPipe(iBefore.pipe_names, "entity_ruler") /\ iFault = ""

C14_ValidLinesLoaded ==
    InstallRan =>
        \A f \in DOMAIN iFiles : \A i \in 1..Len(iFiles[f]) :
            iFiles[f][i].kind = "record" =>
                [phrase |-> iFiles[f][i].phrase, label |-> iFiles[f][i].label] \in rulerTags

-----------------------------------------------------------------------------
(* C15: after a call of try_add_entity_ruler that loaded no pattern, the   *)
(* value returned is None and the pipeline has no entity ruler; and the    *)
(* value returned is None exactly when the pipeline has no entity ruler.   *)
C15_FailOpen ==
    iCalls >= 1 =>
        /\ rulerTags = {} => (ENTITY_RULER = None /\ ~HasPipe(pipe_names, "entity_ruler"))
        /\ ENTITY_RULER = None <=> ~HasPipe(pipe_names, "entity_ruler")

-----------------------------------------------------------------------------
(* C16: after any number of calls of try_add_entity_ruler the pipeline has *)
(* at most one entity ruler, placed before the component "ner" when there  *)
(* is one; a call made when the ruler is in the pipeline leaves the        *)
(* pipeline and the patterns as they were and returns the ruler.           *)

Positions(pipes, name) == {i \in 1..Len(pipes) : pipes[i] = name}

C16_InstallIdempotent ==
    /\ Cardinality(Positions(pipe_names, "entity_ruler")) <= 1
    /\ \A i \in Positions(pipe_names, "entity_ruler") :
            \A j \in Positions(pipe_names, "ner") : i < j
    /\ (iCalls >= 1 /\ HasPipe(iBefore.pipe_names, "entity_ruler")) =>
            /\ pipe_names = iBefore.pipe_names
            /\ rulerTags = iBefore.patterns
            /\ ENTITY_RULER = "entity_ruler"

\* a second call was made on a pipeline whose ruler, placed before other
\* components, holds patterns
C16_Witness ==
    /\ iCalls = 2
    /\ iBefore.pipe_names = <<"tok2vec", "entity_ruler", "ner">>
    /\ iBefore.patterns # {}
    /\ ENTITY_RULER = "entity_ruler"


-----------------------------------------------------------------------------
(* parse_resume, one step at a time: the server handles each request in a  *)
(* thread of its own, and the steps of different requests interleave.      *)

\* the body of a request as request.get_json(silent=True) sees it: json is
\* "none" when there is no JSON document, "array" for a non-empty list,
\* "object" for a dict; field is the JSON type of its "text" member
Body(json, field, text) == [json |-> json, field |-> field, text |-> text]

\* Flask's request is bound to the thread of the request
request_get_json_shared(calls, id) ==
    calls[CHOOSE j \in DOMAIN calls :
            /\ calls[j].pc # "idle"
            /\ \A k \in DOMAIN calls : calls[k].pc # "idle" => k <= j].body

request_get_json(calls, id) == calls[id].body

\* data = request.get_json(silent=True) or {}; data.get raises AttributeError
\* when data is not a dict
HasGet(body) == body.json \in {"none", "object"}

\* text = data.get("text", "")
TextField(body) ==
    IF body.json = "object" /\ body.field # "absent"
    THEN [field |-> body.field, text |-> body.text]
    ELSE [field |-> "string", text |-> ""]

\* the test of line 619 with text.strip() replaced by text
is_text_unstripped(value) == value.field = "string" /\ value.text # ""

\* isinstance(text, str) and text.strip()
is_text(value) == value.field = "string" /\ Strip(value.text) # ""

InvalidRequest == [status |-> 400, error |-> "Invalid request. 'text' field is required."]

ParsingError ==
    [status |-> 500, error |-> "Parsing error", detail |-> "'list' object has no attribute 'get'"]

\* the components parse_resume runs after nlp(text)
AfterNlp ==
    {"split_resume_sections", "extract_experience", "extract_name_fallback",
     "extract_email_regex", "extract_phone_number", "extract_skills_dict",
     "extract_job_titles_dict", "extract_orgs_dict", "merge_sets"}

\* the locals of a call that has not started
IdleCall ==
    [pc |-> "idle", body |-> Body("none", "absent", ""), text |-> "", ran |-> {},
     overlapped |-> FALSE, response |-> NoResponse]

\* the whole of parse_resume on one request
ParseBody(body) ==
    IF ~HasGet(body) THEN {ParsingError}
    ELSE IF ~is_text(TextField(body)) THEN {InvalidRequest}
    ELSE parse_resume(TextField(body).text)

-----------------------------------------------------------------------------
(* Inputs of the concurrent requests                                       *)

ServeTexts ==
    {JoinLines(PickLines(RESUME, {1, 6})), JoinLines(PickLines(RESUME, {2, 3}))}

Bodies ==
    {Body("none", "absent", ""), Body("array", "absent", ""), Body("object", "absent", ""),
     Body("object", "null", "")}
        \cup {Body("object", "string", text) : text \in {"", "  "} \cup ServeTexts}

-----------------------------------------------------------------------------
(* Specification of the concurrent requests: the process has been          *)
(* initialized, up to MaxRequests requests arrive and their threads take   *)
(* steps in any order.                                                     *)

InitServe ==
    /\ \E model \in {"custom", "blank"} :
          /\ ML_AVAILABLE = (model = "custom")
          \* no pattern or one pattern, no tagged phrase or one tagged phrase
          /\ rulerTags \in {{}} \cup {{tag} : tag \in RulerPool}
          /\ nerTags \in (IF model = "blank" THEN {{}} ELSE {{}} \cup {{tag} : tag \in NerPool})
          /\ ENTITY_RULER = IF rulerTags # {} THEN "entity_ruler" ELSE None
          /\ pipe_names = (IF rulerTags # {} THEN <<"entity_ruler">> ELSE <<>>)
                            \o (IF model = "blank" THEN <<>> ELSE <<"ner">>)
    /\ HYBRID_USE_ML = TRUE
    /\ inflight = [id \in 1..MaxRequests |-> IdleCall]
    /\ IdleReq
    /\ IdleCanon
    /\ IdleSeg
    /\ IdleExp
    /\ IdleInst

Others == <<sharedVars, canonVars, segVars, reqVars, expVars, instVars>>

\* the server starts a thread for a request
Receive(id) ==
    /\ inflight[id].pc = "idle"
    /\ \A j \in 1..(id - 1) : inflight[j].pc # "idle"
    /\ \E body \in Bodies :
          inflight' = [inflight EXCEPT ![id] =
                          [@ EXCEPT !.pc = "received", !.body = body,
                                    !.overlapped = \E j \in 1..(id - 1) : inflight[j].pc # "done"]]
    /\ UNCHANGED Others

\* lines 617-620: the body is read and the text field is tested
Validate(id) ==
    /\ inflight[id].pc = "received"
    /\ With(request_get_json(inflight, id), LAMBDA body :
          inflight' = [inflight EXCEPT ![id] =
              IF ~HasGet(body)
              THEN [@ EXCEPT !.pc = "done", !.response = ParsingError]
              ELSE IF ~is_text(TextField(body))
              THEN [@ EXCEPT !.pc = "done", !.response = InvalidRequest]
              ELSE [@ EXCEPT !.pc = "validated", !.text = TextField(body).text]])
    /\ UNCHANGED Others

\* line 623: doc = nlp(text)
Recognize(id) ==
    /\ inflight[id].pc = "validated"
    /\ inflight' = [inflight EXCEPT ![id] = [@ EXCEPT !.pc = "recognized", !.ran = @ \cup {"nlp"}]]
    /\ UNCHANGED Others

\* lines 626-698: the sections, the extractors, the merge and the response
Respond(id) ==
    /\ inflight[id].pc = "recognized"
    /\ \E response \in parse_resume(inflight[id].text) :
          inflight' = [inflight EXCEPT ![id] =
                          [@ EXCEPT !.pc = "done", !.ran = @ \cup AfterNlp, !.response = response]]
    /\ UNCHANGED Others

NextServe ==
    \E id \in 1..MaxRequests : Receive(id) \/ Validate(id) \/ Recognize(id) \/ Respond(id)

SpecServe == InitServe /\ [][NextServe]_vars

-----------------------------------------------------------------------------
(* Vocabulary of the claims about requests in flight                       *)

Started == {id \in DOMAIN inflight : inflight[id].pc # "idle"}

Served == {id \in DOMAIN inflight : inflight[id].pc = "done"}

\* the text of the request is missing, not a string, empty or whitespace-only
InvalidText(body) ==
    \/ body.json # "object"
    \/ body.field # "string"
    \/ \A i \in 0..(Len(body.text) - 1) : IsSpace(CharAt(body.text, i))

-----------------------------------------------------------------------------
(* C13: a request whose text is missing, not a string, empty or            *)
(* whitespace-only never has an extraction component run on it, and it     *)
(* ends with an error response (status 400 or 500).                        *)
C13_RejectedBeforeExtraction ==
    \A id \in Started :
        InvalidText(inflight[id].body) =>
            /\ inflight[id].ran = {}
            /\ inflight[id].pc \in {"received", "done"}
            /\ inflight[id].pc = "done" => inflight[id].response.status \in {400, 500}

\* a whitespace-only text has been rejected while another request was served
C13_Witness ==
    \E id \in Served :
        /\ inflight[id].body = Body("object", "string", "  ")
        /\ inflight[id].response = InvalidRequest
        /\ \E other \in Served : inflight[other].response.status = 200

-----------------------------------------------------------------------------
(* C18: no step of a request writes the shared state (flags, pipeline,     *)
(* ruler, patterns), and whatever the interleaving, the response a request *)
(* ends with is one that parse_resume gives for its body when the request  *)
(* is handled alone.                                                       *)
C18_RequestIndependence ==
    [][/\ sharedVars' = sharedVars
       /\ \A id \in DOMAIN inflight :
            (inflight[id].pc # "done" /\ inflight'[id].pc = "done") =>
                inflight'[id].response \in ParseBody(inflight'[id].body)]_vars

\* a request that ended in a parsing error overlapped with a later one that
\* was served
C18_Witness ==
    /\ Served = 1..MaxRequests
    /\ inflight[1].response = ParsingError
    /\ \E id \in Served : inflight[id].overlapped /\ inflight[id].response.status = 200

====
